---- MODULE Spec2Model ----
(***************************************************************************)
(* Daily distribution and penalty engine of the red-packet code sharing    *)
(* bot (src/bot.js, final revision, lines 1..2188).                        *)
(*                                                                         *)
(* The store is modelled as the tables the SQL statements of bot.js read   *)
(* and write: users, groups, codes, code_view_assignments, user_penalties. *)
(* bot.js declares no schema, so a statement changes exactly the rows its  *)
(* WHERE clause names (no referential action is applied).                  *)
(* The code compares a stored date only with today, yesterday and the day  *)
(* SuspendDays before today, so a date is kept as its age in days, capped  *)
(* at AgeCap (AgeCap stands for any date at least AgeCap days ago).  The   *)
(* server clock and the date strings built by toISOString() are taken to   *)
(* be in the same time zone.                                               *)
(***************************************************************************)
EXTENDS Integers, Sequences, FiniteSets, TLC

\* ---------------------------------------------------------------- bounds
MaxCodes  == 2      \* code rows ever inserted (ids 1..MaxCodes)
MaxUpload == 2      \* codes sent in one upload session
MaxLimit  == 1      \* daily_codes_limit values 0..MaxLimit
MaxCodesDay == 3    \* code rows inserted on the one date of SpecDay
MaxStreak == 3      \* missed_days of a member whose purge keeps failing
MaxFaults == 1      \* store calls that throw in one behaviour
MaxDays == 2        \* distribution_days of a new group
MaxTexts == 3       \* texts collected by one upload session

\* ------------------------------------------------------ program constants
SuspendThreshold == 2   \* if (missedDays >= 2)
DeleteThreshold  == 3   \* else if (missedDays >= 3)
SuspendDays      == 2   \* twoDaysAgo.getDate() - 2
PurgeStatements  == 4   \* the DELETE statements of the purge of one member
Retries          == 3   \* let retries = 3
DefaultLimit     == 50   \* daily_codes_limit returned when getGroupSettings fails
DefaultDays      == 20   \* distribution_days of the default settings
UploadBlock      == 2    \* penalty.rows[0].missed_days >= 2

\* ages 0 (today), 1 (yesterday), ..., AgeCap (AgeCap days ago or earlier)
AgeCap == SuspendDays
Older(n) == IF n < AgeCap THEN n + 1 ELSE AgeCap

\* ------------------------------------------------------------ population
GroupIds  == {"g1", "g2"}
MemberIds == {"a", "b", "c", "d", "e"}

\* users.group_id, fixed at registration (bot.js:294)
GroupOf(m) == IF m \in {"a", "b", "c"} THEN "g1" ELSE "g2"

\* times of day (HH:MM) a group's send_time and the scheduler tick can have
SendTimes == {"09:00", "21:00"}

\* the triggers of runDailyDistribution: the scheduler cron and the admin's
\* /distribute_now (or the distribute_now button)
RunIds == {"tick", "manual"}

\* new Date().toISOString().slice(0, 10) and the day before it, as ages
Today     == 0
Yesterday == 1

VARIABLES
  users,        \* ids of the rows of table users
  groups,       \* rows of table groups: groups[g] = [sched, pay, limit, time]
  codes,        \* rows of table codes: [id, owner, day, status, vpd]
  asg,          \* rows of code_view_assignments: [code, viewer, age, used]
  penalties,    \* rows of user_penalties: [user, missed, age, flag]
  nextCodeId,   \* next value of the codes.id sequence
  pending,      \* TRUE from 00:00 of today until the midnight job has run
  lastNextDay,  \* history: nextDay computed for each group by its last run
  purged,       \* history: members deleted by the midnight job, with the
                \* ids of the codes each owned when it was deleted
  unsent,       \* history: members whose message of the last midnight job
                \* could not be sent
  runs,         \* executions of runDailyDistribution: runs[i] holds the
                \* position and the local variables of the one started by
                \* trigger i
  faults,       \* number of store calls that have thrown so far
  skipped,      \* history: ids of the codes whose distribution was left
                \* without a row because a store call threw
  qcall,        \* one invocation of the store helper q
  revived,      \* history: ids of the codes the last midnight job turned
                \* from suspended to active
  userState,    \* the sessions: userState[m] = [stage, expectedCodes, codes],
                \* codes being the number of texts collected
  autoName,     \* users.auto_name: autoName[m] = n for "User<n>" in the users
                \* row of m (0 before the first registration of m)
  blacklist,    \* the members in table blacklist
  got,          \* the last call of getGroupSettings: [called, group, failed,
                \* raised, value]
  penaltiesActive  \* admin_settings.penalties_active

\* the executions in progress and what is recorded about the engine
inflight == <<runs, faults, skipped, qcall, revived, userState, autoName,
             blacklist, got, penaltiesActive>>

vars == <<users, groups, codes, asg, penalties, nextCodeId, pending,
          lastNextDay, purged, unsent, inflight>>

\* ------------------------------------------------------------- helpers
Max(S) == CHOOSE x \in S : \A y \in S : y <= x
Min(a, b) == IF a <= b THEN a ELSE b

\* rows of a joined with codes cc where cc.owner_id = o
RowsOfOwner(a, cs, o) ==
  { r \in a : \E c \in cs : c.id = r.code /\ c.owner = o }

\* SELECT ... FROM user_penalties WHERE user_id=$1 (bot.js:1686)
PenaltyOf(ps, u) == { p \in ps : p.user = u }

\* the member's stored streak: missed_days of its penalty row, 0 without one
Streak(ps, u) ==
  IF PenaltyOf(ps, u) = {} THEN 0 ELSE (CHOOSE p \in PenaltyOf(ps, u) : TRUE).missed

\* ORDER BY c.created_at ASC: codes are created in id order
RECURSIVE CodeSeq(_)
CodeSeq(S) ==
  IF S = {} THEN <<>>
  ELSE LET c == CHOOSE x \in S : \A y \in S : x.id <= y.id
       IN  <<c>> \o CodeSeq(S \ {c})

\* ------------------------------------------------- runDailyDistribution
\* variant: the payment mode is not looked at
EligibleIgnoringPayment(gs, g) == gs[g].sched

\* WHERE is_scheduler_active=true AND payment_mode_active=false
Eligible(gs, g) == gs[g].sched /\ ~gs[g].pay

\* variant: the highest day that has assignments is taken again
NextDayAgain(us, cs, a, g) ==
  LET ds == { c.day : c \in { x \in cs : /\ x.owner \in us
                                          /\ GroupOf(x.owner) = g
                                          /\ \E r \in a : r.code = x.id } }
  IN  IF ds = {} THEN 1 ELSE Max(ds)

\* 1 + COALESCE(MAX(day_number), 0) over assignments joined with codes and
\* users of the group
NextDay(us, cs, a, g) ==
  LET ds == { c.day : c \in { x \in cs : /\ x.owner \in us
                                          /\ GroupOf(x.owner) = g
                                          /\ \E r \in a : r.code = x.id } }
  IN  IF ds = {} THEN 1 ELSE Max(ds) + 1

\* variant: the status of the code is not looked at
CodesForDayAnyStatus(us, cs, g, d) ==
  { c \in cs : /\ c.owner \in us
               /\ GroupOf(c.owner) = g
               /\ c.day = d }

\* active codes of the group scheduled on day d
CodesForDay(us, cs, g, d) ==
  { c \in cs : /\ c.status = "active"
               /\ c.owner \in us
               /\ GroupOf(c.owner) = g
               /\ c.day = d }

\* c.views_per_day || groupSettings.daily_codes_limit
ViewersNeeded(c, gs) ==
  IF c.vpd # 0 THEN c.vpd ELSE gs[GroupOf(c.owner)].limit

\* variant: only the viewers assigned a code of the owner today are excluded
SeenUserIdsToday(a, cs, o) ==
  { r.viewer : r \in { x \in RowsOfOwner(a, cs, o) : x.age = Today } }

\* SELECT DISTINCT a.assigned_to_user_id ... WHERE cc.owner_id=$1
SeenUserIds(a, cs, o) == { r.viewer : r \in RowsOfOwner(a, cs, o) }

\* variant: the owner is not taken out of the candidates
CandidatesWithOwner(us, cs, a, c) ==
  { u \in us : /\ GroupOf(u) = GroupOf(c.owner)
               /\ u \notin SeenUserIds(a, cs, c.owner) }

\* variant: the members of every group are candidates
CandidatesAnyGroup(us, cs, a, c) ==
  { u \in us : /\ u # c.owner
               /\ u \notin SeenUserIds(a, cs, c.owner) }

\* members of the group except the owner and except whoever was ever
\* assigned a code of this owner
Candidates(us, cs, a, c) ==
  { u \in us : /\ GroupOf(u) = GroupOf(c.owner)
               /\ u # c.owner
               /\ u \notin SeenUserIds(a, cs, c.owner) }

\* the first viewersNeeded candidates of a random order
Audiences(us, cs, gs, a, c) ==
  LET cand == Candidates(us, cs, a, c)
      n    == Min(ViewersNeeded(c, gs), Cardinality(cand))
  IN  { S \in SUBSET cand : Cardinality(S) = n }

\* INSERT ... VALUES ($1,$2,today,NOW(), false, false)
NewRows(c, S) ==
  { [code |-> c.id, viewer |-> v, age |-> Today, used |-> FALSE] : v \in S }

\* the codes of one group, one after the other; each sees the rows
\* committed for the codes before it
RECURSIVE DistCodes(_, _, _, _, _)
DistCodes(seq, us, cs, gs, a) ==
  IF seq = <<>> THEN {a}
  ELSE UNION { DistCodes(Tail(seq), us, cs, gs, a \cup NewRows(Head(seq), S))
               : S \in Audiences(us, cs, gs, a, Head(seq)) }

\* variant: every code of the day is filtered against the rows committed
\* before the run
DistGroupUnordered(us, cs, gs, a, g) ==
  LET C == CodesForDay(us, cs, g, NextDay(us, cs, a, g))
  IN  { a \cup UNION { NewRows(c, f[c]) : c \in C }
        : f \in { h \in [C -> SUBSET us] :
                    \A c \in C : h[c] \in Audiences(us, cs, gs, a, c) } }

DistGroup(us, cs, gs, a, g) ==
  DistCodes(CodeSeq(CodesForDay(us, cs, g, NextDay(us, cs, a, g))),
            us, cs, gs, a)

RECURSIVE DistGroups(_, _, _, _, _)
DistGroups(G, us, cs, gs, a) ==
  IF G = {} THEN {a}
  ELSE LET g == CHOOSE x \in G : TRUE
       IN  UNION { DistGroups(G \ {g}, us, cs, gs, a2)
                   : a2 \in DistGroup(us, cs, gs, a, g) }

EligibleGroups == { g \in DOMAIN groups : Eligible(groups, g) }

\* variant: the trigger of the distribution also evaluates the penalties
RunAndPenalise ==
  /\ \E a2 \in DistGroups(EligibleGroups, users, codes, groups, asg) :
       asg' = a2
  /\ penalties' =
       LET U == { r.viewer : r \in { x \in asg : x.age = Yesterday /\ ~x.used } }
       IN  { IF p.user \in U THEN [p EXCEPT !.missed = p.missed + 1, !.age = Today]
             ELSE p : p \in penalties }
           \cup { [user |-> u, missed |-> 1, age |-> Today, flag |-> FALSE]
                  : u \in { x \in U : \A p \in penalties : p.user # x } }
  /\ lastNextDay' = [g \in GroupIds |->
                       IF g \in EligibleGroups
                       THEN NextDay(users, codes, asg, g)
                       ELSE lastNextDay[g]]
  /\ UNCHANGED <<users, groups, codes, nextCodeId, pending, purged, unsent, inflight>>

RunDailyDistribution ==
  /\ \E a2 \in DistGroups(EligibleGroups, users, codes, groups, asg) :
       asg' = a2
  /\ lastNextDay' = [g \in GroupIds |->
                       IF g \in EligibleGroups
                       THEN NextDay(users, codes, asg, g)
                       ELSE lastNextDay[g]]
  /\ UNCHANGED <<users, groups, codes, penalties, nextCodeId, pending, purged, unsent, inflight>>

\* ------------------------------------------------------------- upload
\* text handler, stage uploading_codes, on /done with n codes collected;
\* cap bounds the ids the codes table hands out
UploadCodes(m, n, cap) ==
  /\ m \in users
  /\ nextCodeId + n - 1 <= cap
  /\ codes' = codes \cup
       { [id |-> nextCodeId + i - 1, owner |-> m, day |-> i,
          status |-> "active", vpd |-> groups[GroupOf(m)].limit]
         : i \in 1..n }
  /\ nextCodeId' = nextCodeId + n
  /\ UNCHANGED <<users, groups, asg, penalties, pending, lastNextDay, purged, unsent, inflight>>

Upload(m, n) == UploadCodes(m, n, MaxCodes)

\* ------------------------------------------------ midnight penalty job
\* users with an unused assignment dated yesterday (JOIN users)
MissedUsers(us, a) ==
  { u \in us : \E r \in a : r.viewer = u /\ r.age = Yesterday /\ ~r.used }

\* variant: the purge happens one miss earlier
PurgeSetEarly(us, a, ps) ==
  { u \in MissedUsers(us, a) : Streak(ps, u) + 1 >= SuspendThreshold }

\* missedDays = (row.missed_days || 0) + 1; purge when missedDays >= 3
PurgeSet(us, a, ps) ==
  { u \in MissedUsers(us, a) : Streak(ps, u) + 1 >= DeleteThreshold }

\* the DELETE statements of the purge, for every member of P
PurgeCodes(cs, P)     == { c \in cs : c.owner \notin P }
PurgeAsg(a, P)        == { r \in a : r.viewer \notin P }
PurgePenalties(ps, P) == { p \in ps : p.user \notin P }

\* handleUnusedCodes: SELECT DISTINCT assigned_to_user_id ... WHERE
\* assigned_date=yesterday AND used=false
UnusedYesterday(a) ==
  { r.viewer : r \in { x \in a : x.age = Yesterday /\ ~x.used } }

\* variant: the rows are re-dated whatever the viewer has today
CarryForwardAlways(a) ==
  { IF r.age = Yesterday /\ ~r.used THEN [r EXCEPT !.age = Today] ELSE r
    : r \in a }

\* variant: the re-dated rows are added and yesterday's rows stay
CarryForwardCopy(a) ==
  LET movers == { u \in UnusedYesterday(a) :
                    ~\E r \in a : r.viewer = u /\ r.age = Today }
  IN  a \cup { [r EXCEPT !.age = Today]
               : r \in { x \in a : /\ x.viewer \in movers
                                   /\ x.age = Yesterday /\ ~x.used } }

\* the rows are re-dated only for a viewer without any row dated today
CarryForward(a) ==
  LET movers == { u \in UnusedYesterday(a) :
                    ~\E r \in a : r.viewer = u /\ r.age = Today }
  IN  { IF r.viewer \in movers /\ r.age = Yesterday /\ ~r.used
        THEN [r EXCEPT !.age = Today] ELSE r : r \in a }

\* penalty row of each viewer that missed: inserted with 1, or incremented
\* with penalty_date=CURRENT_DATE; from SuspendThreshold on the flag
\* codes_deleted is raised
BumpPenalties(ps, U) ==
  { IF p.user \in U
    THEN [p EXCEPT !.missed = p.missed + 1, !.age = Today,
                   !.flag = IF p.missed + 1 >= SuspendThreshold
                            THEN TRUE ELSE p.flag]
    ELSE p : p \in ps }
  \cup { [user |-> u, missed |-> 1, age |-> Today, flag |-> FALSE]
         : u \in { x \in U : PenaltyOf(ps, x) = {} } }

\* variant: the codes are suspended one miss later
SuspendCodesLate(cs, ps, U) ==
  { IF /\ c.owner \in U
       /\ PenaltyOf(ps, c.owner) # {}
       /\ Streak(ps, c.owner) + 1 >= DeleteThreshold
       /\ c.status = "active"
    THEN [c EXCEPT !.status = "suspended"] ELSE c : c \in cs }

\* UPDATE codes SET status='suspended' WHERE owner_id=$1 AND status='active'
\* for the viewers whose incremented streak is >= SuspendThreshold
SuspendCodes(cs, ps, U) ==
  { IF /\ c.owner \in U
       /\ PenaltyOf(ps, c.owner) # {}
       /\ Streak(ps, c.owner) + 1 >= SuspendThreshold
       /\ c.status = "active"
    THEN [c EXCEPT !.status = "suspended"] ELSE c : c \in cs }

\* variant: the window is one day shorter
ReactivatedEarly(ps) ==
  { p.user : p \in { x \in ps : x.flag /\ x.age >= SuspendDays - 1 } }

\* reactivateSuspendedCodes: WHERE codes_deleted=true AND
\* penalty_date <= today - SuspendDays
Reactivated(ps) == { p.user : p \in { x \in ps : x.flag /\ x.age >= SuspendDays } }

ReactivateCodes(cs, R) ==
  { IF c.owner \in R /\ c.status = "suspended"
    THEN [c EXCEPT !.status = "active"] ELSE c : c \in cs }

MidnightJob ==
  /\ pending
  /\ LET P   == PurgeSet(users, asg, penalties)
         cs1 == PurgeCodes(codes, P)
         a1  == PurgeAsg(asg, P)
         ps1 == PurgePenalties(penalties, P)
         U   == UnusedYesterday(a1)
         ps2 == BumpPenalties(ps1, U)
         cs2 == SuspendCodes(cs1, ps1, U)
         R   == Reactivated(ps2)
     IN  /\ users' = users \ P
         /\ asg' = CarryForward(a1)
         /\ codes' = ReactivateCodes(cs2, R)
         /\ penalties' = { p \in ps2 : p.user \notin R }
  /\ pending' = FALSE
  /\ purged' = purged \cup
       { [user |-> u, owned |-> { c.id : c \in { x \in codes : x.owner = u } }]
         : u \in PurgeSet(users, asg, penalties) }
  /\ unsent' = {}
  /\ revived' = { c.id : c \in { x \in codes : /\ x.status = "suspended"
                                              /\ [x EXCEPT !.status = "active"] \in codes' } }
  /\ UNCHANGED <<runs, faults, skipped, qcall, userState, autoName, blacklist, got,
                 penaltiesActive>>
  /\ UNCHANGED <<groups, nextCodeId, lastNextDay>>

\* the midnight job with the store and the transport failing.  kf[u] is the
\* number of DELETE statements of the purge of u that complete before q()
\* throws (PurgeStatements: none fails); the catch of the loop body then goes
\* on with the next member.  F is the set of members for which
\* bot.telegram.sendMessage throws; it is called after the DELETE statements
\* and handleUnusedCodes sends nothing.
PurgeOutcomes(P) == [P -> 0..PurgeStatements]
PurgeDone(P)     == [u \in P |-> PurgeStatements]

\* variant: nothing is committed for a member whose message fails
MidnightJobSkipUnsent(kf, F) ==
  /\ pending
  /\ kf \in PurgeOutcomes(PurgeSet(users, asg, penalties))
  /\ F \subseteq MissedUsers(users, asg)
  /\ LET P   == PurgeSet(users, asg, penalties) \ F
         cs1 == PurgeCodes(codes, P)
         a1  == PurgeAsg(asg, P)
         ps1 == PurgePenalties(penalties, P)
         U   == UnusedYesterday(a1) \ F
         ps2 == BumpPenalties(ps1, U)
         cs2 == SuspendCodes(cs1, ps1, U)
         R   == Reactivated(ps2)
     IN  /\ users' = users \ P
         /\ asg' = CarryForward(a1)
         /\ codes' = ReactivateCodes(cs2, R)
         /\ penalties' = { p \in ps2 : p.user \notin R }
         /\ purged' = purged \cup
              { [user |-> u, owned |-> { c.id : c \in { x \in codes : x.owner = u } }]
                : u \in P }
  /\ pending' = FALSE
  /\ unsent' = F
  /\ revived' = { c.id : c \in { x \in codes : /\ x.status = "suspended"
                                              /\ [x EXCEPT !.status = "active"] \in codes' } }
  /\ UNCHANGED <<runs, faults, skipped, qcall, userState, autoName, blacklist, got,
                 penaltiesActive>>
  /\ UNCHANGED <<groups, nextCodeId, lastNextDay>>

MidnightJobWith(kf, F) ==
  /\ pending
  /\ kf \in PurgeOutcomes(PurgeSet(users, asg, penalties))
  /\ F \subseteq MissedUsers(users, asg)
  /\ LET P    == PurgeSet(users, asg, penalties)
         D(n) == { u \in P : kf[u] >= n }
         cs1  == PurgeCodes(codes, D(1))
         a1   == PurgeAsg(asg, D(2))
         ps1  == PurgePenalties(penalties, D(3))
         U    == UnusedYesterday(a1)
         ps2  == BumpPenalties(ps1, U)
         cs2  == SuspendCodes(cs1, ps1, U)
         R    == Reactivated(ps2)
     IN  /\ users' = users \ D(4)
         /\ asg' = CarryForward(a1)
         /\ codes' = ReactivateCodes(cs2, R)
         /\ penalties' = { p \in ps2 : p.user \notin R }
         /\ purged' = purged \cup
              { [user |-> u, owned |-> { c.id : c \in { x \in codes : x.owner = u } }]
                : u \in D(4) }
  /\ \A p \in penalties' : p.missed <= MaxStreak
  /\ pending' = FALSE
  /\ unsent' = F
  /\ revived' = { c.id : c \in { x \in codes : /\ x.status = "suspended"
                                              /\ [x EXCEPT !.status = "active"] \in codes' } }
  /\ UNCHANGED <<runs, faults, skipped, qcall, userState, autoName, blacklist, got,
                 penaltiesActive>>
  /\ UNCHANGED <<groups, nextCodeId, lastNextDay>>

\* ------------------------------------------------ callback_query done_
\* variant: the penalty row is kept
DoneKeepPenalty(u, r) ==
  /\ r \in asg
  /\ asg' = (asg \ {r}) \cup {[r EXCEPT !.used = TRUE]}
  /\ penalties' = penalties
  /\ UNCHANGED <<users, groups, codes, nextCodeId, pending, lastNextDay, purged, unsent, inflight>>

\* u presses the button "done_<id of row r>"; the button is sent to the
\* viewer of r (bot.js:866), who is the u of Next
Done(u, r) ==
  /\ r \in asg
  /\ asg' = (asg \ {r}) \cup {[r EXCEPT !.used = TRUE]}
  /\ penalties' = IF u \in users THEN { p \in penalties : p.user # u }
                                 ELSE penalties
  /\ UNCHANGED <<users, groups, codes, nextCodeId, pending, lastNextDay, purged, unsent, inflight>>

\* ------------------------------------------------------------ /banuser
BanUser(u) ==
  /\ u \in users
  /\ codes' = { c \in codes : c.owner # u }
  /\ asg' = { r \in asg : r.viewer # u }
  /\ penalties' = { p \in penalties : p.user # u }
  /\ users' = users \ {u}
  /\ UNCHANGED <<groups, nextCodeId, pending, lastNextDay, purged, unsent, inflight>>

\* --------------------------- /reset_cycle, confirm_delete_cycle, monthly
\* variant: the reset also wipes the members
ResetCycleWithMembers ==
  /\ asg' = {}
  /\ codes' = {}
  /\ penalties' = {}
  /\ users' = {}
  /\ lastNextDay' = [g \in GroupIds |-> 0]
  /\ UNCHANGED <<groups, nextCodeId, pending, purged, unsent, inflight>>

ResetCycle ==
  /\ asg' = {}
  /\ codes' = {}
  /\ penalties' = {}
  /\ lastNextDay' = [g \in GroupIds |-> 0]
  /\ UNCHANGED <<users, groups, nextCodeId, pending, purged, unsent, inflight>>

\* ------------------------------------------------------ admin settings
\* callback grouptoggle_<g>
GroupToggle(g) ==
  /\ g \in DOMAIN groups
  /\ groups' = [groups EXCEPT ![g].sched = ~groups[g].sched]
  /\ UNCHANGED <<users, codes, asg, penalties, nextCodeId, pending, lastNextDay, purged, unsent, inflight>>

\* callback payment_remind_group_<g>
PaymentRemindGroup(g) ==
  /\ g \in DOMAIN groups
  /\ groups' = [groups EXCEPT ![g].pay = TRUE, ![g].sched = FALSE]
  /\ UNCHANGED <<users, codes, asg, penalties, nextCodeId, pending, lastNextDay, purged, unsent, inflight>>

\* callback payment_resume_group_<g>
PaymentResumeGroup(g) ==
  /\ g \in DOMAIN groups
  /\ groups' = [groups EXCEPT ![g].pay = FALSE, ![g].sched = TRUE]
  /\ UNCHANGED <<users, codes, asg, penalties, nextCodeId, pending, lastNextDay, purged, unsent, inflight>>

\* variant: the stored codes of the group's members take the new value too
SetGroupLimitRestamp(g, v) ==
  /\ g \in DOMAIN groups
  /\ groups' = [groups EXCEPT ![g].limit = v]
  /\ codes' = { IF GroupOf(c.owner) = g THEN [c EXCEPT !.vpd = v] ELSE c : c \in codes }
  /\ UNCHANGED <<users, asg, penalties, nextCodeId, pending, lastNextDay, purged, unsent, inflight>>

\* /set_group_limit <g> <v>, /glimit <g> <v>
SetGroupLimit(g, v) ==
  /\ g \in DOMAIN groups
  /\ groups' = [groups EXCEPT ![g].limit = v]
  /\ UNCHANGED <<users, codes, asg, penalties, nextCodeId, pending, lastNextDay, purged, unsent, inflight>>

\* callback toggle_penalties
TogglePenalties ==
  /\ penaltiesActive' = ~penaltiesActive
  /\ UNCHANGED <<users, groups, codes, asg, penalties, nextCodeId, pending,
                 lastNextDay, purged, unsent, runs, faults, skipped, qcall, revived,
                 userState, autoName, blacklist, got>>

\* /set_limit <v>: UPDATE groups SET daily_codes_limit = $1
SetLimit(v) ==
  /\ groups' = [g \in DOMAIN groups |-> [groups[g] EXCEPT !.limit = v]]
  /\ UNCHANGED <<users, codes, asg, penalties, nextCodeId, pending, lastNextDay, purged, unsent, inflight>>

\* /set_group_time <g> <t>, /gtime <g> <t>
SetGroupTime(g, t) ==
  /\ g \in DOMAIN groups
  /\ groups' = [groups EXCEPT ![g].time = t]
  /\ UNCHANGED <<users, codes, asg, penalties, nextCodeId, pending, lastNextDay, purged, unsent, inflight>>

\* cron * * * * * at time of day t: the first group with the scheduler on
\* whose send_time is t triggers one runDailyDistribution, then break
SchedulerTick(t) ==
  /\ \E g \in DOMAIN groups : groups[g].sched /\ groups[g].time = t
  /\ RunDailyDistribution

\* ------------------------------------------------------------- clock
\* the calendar date changes: every stored date is one day older
NewDay ==
  /\ ~pending
  /\ asg' = { [r EXCEPT !.age = Older(r.age)] : r \in asg }
  /\ penalties' = { [p EXCEPT !.age = Older(p.age)] : p \in penalties }
  /\ pending' = TRUE
  /\ unsent' = {}
  /\ UNCHANGED inflight
  /\ UNCHANGED <<users, groups, codes, nextCodeId, lastNextDay, purged>>

\* ------------------------------- runDailyDistribution, call by call
\* An execution of runDailyDistribution is suspended at every await q(...);
\* pc names the store call it is waiting for.  Each action below is the
\* completion of that call (f: the call throws after the retries of q)
\* followed by the code up to the next store call.
IdleRun ==
  [pc |-> "idle", left |-> {}, g |-> "none", lim |-> 0, day |-> 0,
   cq |-> <<>>, all |-> {}, cand |-> {}, count |-> 0]

\* a store call may throw while fewer than MaxFaults have
Thrown(f) ==
  /\ f => faults < MaxFaults
  /\ faults' = IF f THEN faults + 1 ELSE faults

\* for (const group of groups.rows): the next group, in the order of the
\* rows (no ORDER BY), or the end of the run
NextGroupRecs(r) ==
  IF r.left = {} THEN {IdleRun}
  ELSE { [IdleRun EXCEPT !.pc = "settings", !.g = g, !.left = r.left \ {g}]
         : g \in r.left }

\* for (const c of codesRes.rows): the next code, or the next group
NextCodeRecs(r) ==
  IF Tail(r.cq) = <<>> THEN NextGroupRecs(r)
  ELSE {[r EXCEPT !.pc = "seen", !.cq = Tail(r.cq), !.cand = {}, !.count = 0]}

\* for (const candidateId of candidates): if (assignedCount >= viewersNeeded)
\* break, with viewersNeeded = c.views_per_day || groupSettings.daily_codes_limit
InsertLoopRecs(r) ==
  LET c == Head(r.cq)
      n == IF c.vpd # 0 THEN c.vpd ELSE r.lim
  IN  IF r.cand = {} \/ r.count >= n
      THEN NextCodeRecs(r)
      ELSE {[r EXCEPT !.pc = "insert"]}

\* a trigger calls runDailyDistribution; nothing looks at the executions
\* already in progress
StartRun(i) ==
  /\ runs[i].pc = "idle"
  /\ i = "tick" => \E g \in DOMAIN groups : groups[g].sched
  /\ runs' = [runs EXCEPT ![i] = [IdleRun EXCEPT !.pc = "groups"]]
  /\ UNCHANGED <<users, groups, codes, asg, penalties, nextCodeId, pending,
                 lastNextDay, purged, unsent, faults, skipped, qcall, revived, userState,
                 autoName, blacklist, got,
                 penaltiesActive>>

\* SELECT id, payment_mode_active FROM groups WHERE ...
SelectGroups(i, f) ==
  /\ runs[i].pc = "groups"
  /\ Thrown(f)
  /\ \E r \in IF f THEN {IdleRun}
              ELSE NextGroupRecs([IdleRun EXCEPT !.left = EligibleGroups]) :
       runs' = [runs EXCEPT ![i] = r]
  /\ UNCHANGED <<users, groups, codes, asg, penalties, nextCodeId, pending,
                 lastNextDay, purged, unsent, skipped, qcall, revived, userState,
                 autoName, blacklist, got,
                 penaltiesActive>>

\* getGroupSettings(group.id): its own catch returns the default settings
GetGroupSettings(i, f) ==
  /\ runs[i].pc = "settings"
  /\ Thrown(f)
  /\ runs' = [runs EXCEPT ![i].pc = "maxday",
                          ![i].lim = IF f THEN DefaultLimit
                                     ELSE groups[runs[i].g].limit]
  /\ UNCHANGED <<users, groups, codes, asg, penalties, nextCodeId, pending,
                 lastNextDay, purged, unsent, skipped, qcall, revived, userState,
                 autoName, blacklist, got,
                 penaltiesActive>>

\* SELECT COALESCE(MAX(day_number), 0) ...; nextDay = max_day + 1
SelectMaxDay(i, f) ==
  /\ runs[i].pc = "maxday"
  /\ Thrown(f)
  /\ LET d == NextDay(users, codes, asg, runs[i].g)
     IN  /\ runs' = [runs EXCEPT ![i] =
                       IF f THEN IdleRun
                       ELSE [runs[i] EXCEPT !.pc = "codes", !.day = d]]
         /\ lastNextDay' = IF f THEN lastNextDay
                           ELSE [lastNextDay EXCEPT ![runs[i].g] = d]
  /\ UNCHANGED <<users, groups, codes, asg, penalties, nextCodeId, pending,
                 purged, unsent, skipped, qcall, revived, userState,
                 autoName, blacklist, got,
                 penaltiesActive>>

\* SELECT c.id, ... WHERE c.status='active' AND u.group_id=$1 AND
\* c.day_number=$2 ORDER BY c.created_at ASC; rowCount === 0: continue
SelectCodes(i, f) ==
  /\ runs[i].pc = "codes"
  /\ Thrown(f)
  /\ LET r  == runs[i]
         cq == CodeSeq(CodesForDay(users, codes, r.g, r.day))
     IN  \E r2 \in IF f THEN {IdleRun}
                   ELSE IF cq = <<>> THEN NextGroupRecs(r)
                   ELSE {[r EXCEPT !.pc = "users", !.cq = cq]} :
           runs' = [runs EXCEPT ![i] = r2]
  /\ UNCHANGED <<users, groups, codes, asg, penalties, nextCodeId, pending,
                 lastNextDay, purged, unsent, skipped, qcall, revived, userState,
                 autoName, blacklist, got,
                 penaltiesActive>>

\* SELECT id FROM users WHERE group_id=$1
SelectUsers(i, f) ==
  /\ runs[i].pc = "users"
  /\ Thrown(f)
  /\ runs' = [runs EXCEPT ![i] =
                IF f THEN IdleRun
                ELSE [runs[i] EXCEPT !.pc = "seen",
                        !.all = { u \in users : GroupOf(u) = runs[i].g }]]
  /\ UNCHANGED <<users, groups, codes, asg, penalties, nextCodeId, pending,
                 lastNextDay, purged, unsent, skipped, qcall, revived, userState,
                 autoName, blacklist, got,
                 penaltiesActive>>

\* SELECT DISTINCT a.assigned_to_user_id ... WHERE cc.owner_id=$1, then the
\* two filters of the candidates
SelectSeen(i, f) ==
  /\ runs[i].pc = "seen"
  /\ Thrown(f)
  /\ LET r == runs[i]
         c == Head(r.cq)
     IN  /\ \E r2 \in IF f THEN {IdleRun}
                      ELSE InsertLoopRecs(
                             [r EXCEPT !.count = 0,
                                !.cand = (r.all \ {c.owner})
                                           \ SeenUserIds(asg, codes, c.owner)]) :
              runs' = [runs EXCEPT ![i] = r2]
         /\ skipped' = IF f THEN skipped \cup {c.id} ELSE skipped
  /\ UNCHANGED <<users, groups, codes, asg, penalties, nextCodeId, pending,
                 lastNextDay, purged, unsent, qcall, revived, userState,
                 autoName, blacklist, got,
                 penaltiesActive>>

\* INSERT INTO code_view_assignments ... for candidate v, the next of the
\* shuffled candidates; its catch goes on with the next candidate.  The
\* table is a set of rows: inserting a row that is already there leaves it
\* as it is.
InsertAssignment(i, v, f) ==
  /\ runs[i].pc = "insert"
  /\ v \in runs[i].cand
  /\ Thrown(f)
  /\ LET r == runs[i]
         c == Head(r.cq)
     IN  /\ \E r2 \in InsertLoopRecs(
                        [r EXCEPT !.cand = r.cand \ {v},
                                  !.count = IF f THEN r.count ELSE r.count + 1]) :
              runs' = [runs EXCEPT ![i] = r2]
         /\ asg' = IF f THEN asg ELSE asg \cup NewRows(c, {v})
         /\ skipped' = IF f THEN skipped \cup {c.id} ELSE skipped
  /\ UNCHANGED <<users, groups, codes, penalties, nextCodeId, pending,
                 lastNextDay, purged, unsent, qcall, revived, userState,
                 autoName, blacklist, got,
                 penaltiesActive>>

\* one store call of execution i completes
RunStep(i, f) ==
  \/ SelectGroups(i, f)
  \/ GetGroupSettings(i, f)
  \/ SelectMaxDay(i, f)
  \/ SelectCodes(i, f)
  \/ SelectUsers(i, f)
  \/ SelectSeen(i, f)
  \/ \E v \in MemberIds : InsertAssignment(i, v, f)

\* ------------------------------ callback_query done_, the store failing
\* f: the UPDATE of the row has completed and a later store call of the
\* handler (the SELECT of the user, the DELETE of the penalty row) throws;
\* the catch of the handler answers the callback and nothing is undone
DoneWith(u, r, f) ==
  /\ r \in asg
  /\ Thrown(f)
  /\ asg' = (asg \ {r}) \cup {[r EXCEPT !.used = TRUE]}
  /\ penalties' = IF u \in users /\ ~f THEN { p \in penalties : p.user # u }
                                       ELSE penalties
  /\ UNCHANGED <<users, groups, codes, nextCodeId, pending, lastNextDay,
                 purged, unsent, runs, skipped, qcall, revived, userState,
                 autoName, blacklist, got,
                 penaltiesActive>>


\* ------------------------------------------------- getGroupSettings
\* the settings returned when the groups row is absent or the SELECT throws
DefaultSettings ==
  [sched |-> FALSE, pay |-> FALSE, limit |-> DefaultLimit, time |-> "09:00:00",
   days |-> DefaultDays]

\* variant: the error of the SELECT is thrown on to the caller
SettingsCallRethrow(gs, g, f) ==
  [raised |-> f,
   value  |-> IF ~f /\ g \in DOMAIN gs THEN gs[g] ELSE DefaultSettings]

\* getGroupSettings(groupId); f: the SELECT throws after the retries of q.
\* The row when there is one; the defaults when there is none and, from the
\* catch, when the SELECT threw
SettingsCall(gs, g, f) ==
  [raised |-> FALSE,
   value  |-> IF ~f /\ g \in DOMAIN gs THEN gs[g] ELSE DefaultSettings]

\* what a caller of getGroupSettings goes on with
GroupSettings(gs, g, f) == SettingsCall(gs, g, f).value

NoCall == [called |-> FALSE, group |-> "none", failed |-> FALSE, raised |-> FALSE,
           value |-> DefaultSettings]

\* one call of getGroupSettings for group g
CallGetGroupSettings(g, f) ==
  /\ got' = [called |-> TRUE, group |-> g, failed |-> f,
             raised |-> SettingsCall(groups, g, f).raised,
             value  |-> SettingsCall(groups, g, f).value]
  /\ UNCHANGED <<users, groups, codes, asg, penalties, nextCodeId, pending,
                 lastNextDay, purged, unsent, runs, faults, skipped, qcall, revived,
                 userState, autoName, blacklist,
                 penaltiesActive>>

\* ------------------------------------------------- the upload session
NoSession == [stage |-> "none", expectedCodes |-> 0, codes |-> 0]

\* the penalty row that makes the upload command answer with the refusal
UploadRefused(ps, m) ==
  \E p \in PenaltyOf(ps, m) : p.missed >= UploadBlock /\ ~p.flag

\* text handler, upload start: the command of a registered member who is
\* not refused opens a session; f: the SELECT of getGroupSettings throws
StartUpload(m, f) ==
  /\ m \in users
  /\ ~UploadRefused(penalties, m)
  /\ Thrown(f)
  /\ userState' = [userState EXCEPT ![m] =
                     [stage |-> "uploading_codes",
                      expectedCodes |-> GroupSettings(groups, GroupOf(m), f).days,
                      codes |-> 0]]
  /\ UNCHANGED <<users, groups, codes, asg, penalties, nextCodeId, pending,
                 lastNextDay, purged, unsent, runs, skipped, qcall, revived,
                 autoName, blacklist, got,
                 penaltiesActive>>

\* text handler, stage uploading_codes, any text but /done: st.codes.push
SendText(m) ==
  /\ userState[m].stage = "uploading_codes"
  /\ userState[m].codes < MaxTexts
  /\ userState' = [userState EXCEPT ![m].codes = @ + 1]
  /\ UNCHANGED <<users, groups, codes, asg, penalties, nextCodeId, pending,
                 lastNextDay, purged, unsent, runs, faults, skipped, qcall, revived,
                 autoName, blacklist, got,
                 penaltiesActive>>

\* the rows stored by the INSERT loop over n texts when the INSERTs of the
\* positions in F throw: position i is stored with day_number i
StoredRows(m, n, F, first, vpd) ==
  { [id |-> first + Cardinality({ j \in 1..(i - 1) : j \notin F }),
     owner |-> m, day |-> i, status |-> "active", vpd |-> vpd]
    : i \in (1..n) \ F }

\* text handler, stage uploading_codes, on /done.  o = "users": the SELECT
\* of the member throws; o = "settings": the SELECT of getGroupSettings
\* throws; F: the positions whose INSERT throws; cap bounds the ids the
\* codes table hands out
FinishUpload(m, o, F, cap) ==
  /\ userState[m].stage = "uploading_codes"
  /\ userState' = [userState EXCEPT ![m] = NoSession]
  /\ LET n == userState[m].codes
         stores == n > 0 /\ o # "users" /\ m \in users
         vpd == GroupSettings(groups, GroupOf(m), o = "settings").limit
         rows == IF stores THEN StoredRows(m, n, F, nextCodeId, vpd) ELSE {}
         thrown == (IF o = "ok" THEN 0 ELSE 1) + Cardinality(F)
     IN  /\ o = "users" => n > 0
         /\ o = "settings" => stores
         /\ F \subseteq 1..n
         /\ F # {} => stores
         /\ nextCodeId + Cardinality(rows) - 1 <= cap
         /\ faults + thrown <= MaxFaults
         /\ faults' = faults + thrown
         /\ codes' = codes \cup rows
         /\ nextCodeId' = nextCodeId + Cardinality(rows)
  /\ UNCHANGED <<users, groups, asg, penalties, pending, lastNextDay, purged,
                 unsent, runs, skipped, qcall, revived,
                 autoName, blacklist, got,
                 penaltiesActive>>


\* ----------------------------------------------------- registration
\* a new group: is_scheduler_active false, daily_codes_limit, send_time and
\* distribution_days of the admin settings (bot.js:162)
NewGroup == [sched |-> FALSE, pay |-> FALSE, limit |-> MaxLimit, time |-> "09:00",
             days |-> MaxDays]

\* hears /تسجيل: a sender without a users row is asked for the binance id
StartRegistration(m) ==
  /\ m \notin users
  /\ userState' = [userState EXCEPT ![m] = [NoSession EXCEPT !.stage = "awaiting_binance"]]
  /\ UNCHANGED <<users, groups, codes, asg, penalties, nextCodeId, pending,
                 lastNextDay, purged, unsent, runs, faults, skipped, qcall, revived,
                 autoName, blacklist, got,
                 penaltiesActive>>

\* text handler, stage awaiting_binance: the text is kept as the binance id
SendBinance(m) ==
  /\ userState[m].stage = "awaiting_binance"
  /\ userState' = [userState EXCEPT ![m].stage = "awaiting_phone"]
  /\ UNCHANGED <<users, groups, codes, asg, penalties, nextCodeId, pending,
                 lastNextDay, purged, unsent, runs, faults, skipped, qcall, revived,
                 autoName, blacklist, got,
                 penaltiesActive>>

\* autoNameInGroup: SELECT COUNT(*) FROM users WHERE group_id=$1, plus 1
AutoNameInGroup(us, g) == Cardinality({ x \in us : GroupOf(x) = g }) + 1

\* assignGroupIdBySettings for member m: the groups row exists afterwards
\* (the group m joins is GroupOf(m))
AssignGroup(gs, m) ==
  [g \in DOMAIN gs \cup {GroupOf(m)} |-> IF g \in DOMAIN gs THEN gs[g] ELSE NewGroup]

\* contact handler: the member shares the phone number.  A blacklisted or
\* already registered sender only loses the session; otherwise the users
\* row is inserted with the name autoNameInGroup returns
Contact(m) ==
  /\ userState[m].stage = "awaiting_phone"
  /\ userState' = [userState EXCEPT ![m] = NoSession]
  /\ IF m \in blacklist \/ m \in users
       THEN UNCHANGED <<users, groups, autoName>>
       ELSE /\ groups' = AssignGroup(groups, m)
            /\ autoName' = [autoName EXCEPT ![m] = AutoNameInGroup(users, GroupOf(m))]
            /\ users' = users \cup {m}
  /\ UNCHANGED <<codes, asg, penalties, nextCodeId, pending, lastNextDay, purged,
                 unsent, runs, faults, skipped, qcall, revived, blacklist, got,
                 penaltiesActive>>

\* /banuser with its INSERT INTO blacklist
BanUserListed(u) ==
  /\ u \in users
  /\ blacklist' = blacklist \cup {u}
  /\ codes' = { c \in codes : c.owner # u }
  /\ asg' = { r \in asg : r.viewer # u }
  /\ penalties' = { p \in penalties : p.user # u }
  /\ users' = users \ {u}
  /\ UNCHANGED <<groups, nextCodeId, pending, lastNextDay, purged, unsent, runs,
                 faults, skipped, qcall, revived, userState, autoName, got,
                 penaltiesActive>>

\* ---------------------------------------------------------------- q
\* One invocation of q(sql, params).  pc: "connect" (await pool.connect()),
\* "query" (await client.query), "sleep" (the 1000 ms wait of the catch),
\* "returned", "thrown".  tried lists the outcomes of client.query so far.
Statements == {"select", "insert", "update", "delete"}

\* what client.query can do: return the result, fail for a transient reason
\* (connection, timeout), or be rejected by a constraint of the table
Outcomes == {"ok", "transient", "domain"}

IdleCall == [pc |-> "idle", sql |-> "none", retries |-> 0, tried |-> <<>>]

\* a caller invokes q: let retries = 3
QCall(k) ==
  /\ qcall.pc \in {"idle", "returned", "thrown"}
  /\ qcall' = [pc |-> "connect", sql |-> k, retries |-> Retries, tried |-> <<>>]
  /\ UNCHANGED <<users, groups, codes, asg, penalties, nextCodeId, pending,
                 lastNextDay, purged, unsent, runs, faults, skipped, revived, userState,
                 autoName, blacklist, got,
                 penaltiesActive>>

\* const client = await pool.connect(), outside the try: when it throws the
\* error leaves q
QConnect(f) ==
  /\ qcall.pc = "connect"
  /\ qcall' = [qcall EXCEPT !.pc = IF f THEN "thrown" ELSE "query"]
  /\ UNCHANGED <<users, groups, codes, asg, penalties, nextCodeId, pending,
                 lastNextDay, purged, unsent, runs, faults, skipped, revived, userState,
                 autoName, blacklist, got,
                 penaltiesActive>>

\* variant: the catch never throws, it always waits and tries again
QQueryAgain(o) ==
  /\ qcall.pc = "query"
  /\ qcall' = [qcall EXCEPT !.tried = Append(qcall.tried, o),
                            !.retries = IF o = "ok" THEN qcall.retries
                                        ELSE qcall.retries - 1,
                            !.pc = IF o = "ok" THEN "returned" ELSE "sleep"]
  /\ UNCHANGED <<users, groups, codes, asg, penalties, nextCodeId, pending,
                 lastNextDay, purged, unsent, runs, faults, skipped, revived, userState,
                 autoName, blacklist, got,
                 penaltiesActive>>

\* return await client.query(sql, params); catch: retries--, throw when
\* retries === 0, else wait; finally: client.release()
QQuery(o) ==
  /\ qcall.pc = "query"
  /\ qcall' = [qcall EXCEPT !.tried = Append(qcall.tried, o),
                            !.retries = IF o = "ok" THEN qcall.retries
                                        ELSE qcall.retries - 1,
                            !.pc = IF o = "ok" THEN "returned"
                                   ELSE IF qcall.retries - 1 = 0 THEN "thrown"
                                   ELSE "sleep"]
  /\ UNCHANGED <<users, groups, codes, asg, penalties, nextCodeId, pending,
                 lastNextDay, purged, unsent, runs, faults, skipped, revived, userState,
                 autoName, blacklist, got,
                 penaltiesActive>>

\* the wait is over: while (retries > 0) goes round
QSleep ==
  /\ qcall.pc = "sleep"
  /\ qcall.retries > 0
  /\ qcall' = [qcall EXCEPT !.pc = "connect"]
  /\ UNCHANGED <<users, groups, codes, asg, penalties, nextCodeId, pending,
                 lastNextDay, purged, unsent, runs, faults, skipped, revived, userState,
                 autoName, blacklist, got,
                 penaltiesActive>>

\* ------------------------------------------------------- specifications
\* the order in which the members of the initial population registered
RegistrationOrder == <<"a", "b", "c", "d", "e">>

\* the auto_name of member m when the members of us registered in that
\* order and nobody was deleted: the count of its group at the time, plus 1
InitialName(us, m) ==
  LET pos(x) == CHOOSE i \in 1..Len(RegistrationOrder) : RegistrationOrder[i] = x
  IN  IF m \in us
        THEN Cardinality({ x \in us : GroupOf(x) = GroupOf(m) /\ pos(x) < pos(m) }) + 1
        ELSE 0

InitStore ==
  /\ codes = {}
  /\ asg = {}
  /\ penalties = {}
  /\ nextCodeId = 1
  /\ pending = FALSE
  /\ lastNextDay = [g \in GroupIds |-> 0]
  /\ purged = {}
  /\ unsent = {}
  /\ runs = [i \in RunIds |-> IdleRun]
  /\ faults = 0
  /\ skipped = {}
  /\ qcall = IdleCall
  /\ revived = {}
  /\ userState = [m \in MemberIds |-> NoSession]
  /\ autoName = [m \in MemberIds |-> InitialName(users, m)]
  /\ blacklist = {}
  /\ got = NoCall
  /\ penaltiesActive = TRUE

\* The engine: one group of three registered members whose scheduler the
\* admin has enabled; members upload, the engine distributes, days pass,
\* the midnight job runs, members press done, the admin bans and resets.
Init ==
  /\ users = {"a", "b", "c"}
  /\ groups = [g \in {"g1"} |-> [NewGroup EXCEPT !.sched = TRUE]]
  /\ InitStore

Next ==
  \/ RunDailyDistribution
  \/ \E m \in MemberIds, n \in 1..MaxUpload : Upload(m, n)
  \/ NewDay
  \/ MidnightJob
  \/ \E r \in asg : Done(r.viewer, r)
  \/ \E u \in MemberIds : BanUser(u)
  \/ ResetCycle

Spec == Init /\ [][Next]_vars

\* The group switches: two new groups of two registered members; the admin
\* turns the scheduler and the payment mode of each group on and off between
\* uploads and runs.
InitAdmin ==
  /\ users = {"a", "b", "d", "e"}
  /\ groups = [g \in GroupIds |-> NewGroup]
  /\ InitStore

NextAdmin ==
  \/ RunDailyDistribution
  \/ \E m \in MemberIds, n \in 1..MaxUpload : Upload(m, n)
  \/ \E g \in GroupIds : GroupToggle(g)
  \/ \E g \in GroupIds : PaymentRemindGroup(g)
  \/ \E g \in GroupIds : PaymentResumeGroup(g)

SpecAdmin == InitAdmin /\ [][NextAdmin]_vars

\* The group limit: one new group of two registered members; the admin
\* changes daily_codes_limit and the scheduler switch between uploads and
\* runs.
InitLimit ==
  /\ users = {"a", "b"}
  /\ groups = [g \in {"g1"} |-> NewGroup]
  /\ InitStore

NextLimit ==
  \/ RunDailyDistribution
  \/ \E m \in MemberIds, n \in 1..MaxUpload : Upload(m, n)
  \/ \E g \in GroupIds : GroupToggle(g)
  \/ \E g \in GroupIds, v \in 0..MaxLimit : SetGroupLimit(g, v)
  \/ \E v \in 0..MaxLimit : SetLimit(v)

SpecLimit == InitLimit /\ [][NextLimit]_vars

\* One calendar date: one group of three registered members with the
\* scheduler on; members upload and the engine is triggered again and again
\* (scheduler tick, /distribute_now, button distribute_now).
InitDay ==
  /\ users = {"a", "b", "c"}
  /\ groups = [g \in {"g1"} |-> [NewGroup EXCEPT !.sched = TRUE]]
  /\ InitStore

NextDayOnly ==
  \/ RunDailyDistribution
  \/ \E m \in MemberIds, n \in 1..MaxUpload : UploadCodes(m, n, MaxCodesDay)

SpecDay == InitDay /\ [][NextDayOnly]_vars

\* The scheduler: two new groups of two registered members; the admin sets
\* the groups' send times and scheduler switches, members upload, and the
\* scheduler cron ticks at the times of day.
InitTick ==
  /\ users = {"a", "b", "d", "e"}
  /\ groups = [g \in GroupIds |-> NewGroup]
  /\ InitStore

NextTick ==
  \/ \E t \in SendTimes : SchedulerTick(t)
  \/ \E m \in MemberIds, n \in 1..MaxUpload : Upload(m, n)
  \/ \E g \in GroupIds : GroupToggle(g)
  \/ \E g \in GroupIds, t \in SendTimes : SetGroupTime(g, t)

SpecTick == InitTick /\ [][NextTick]_vars

\* The transport fails: the engine group with a and b uploading, and a
\* midnight job in which any of the messages may fail to be sent (no store
\* failure).
NextNotify ==
  \/ RunDailyDistribution
  \/ \E m \in {"a", "b"}, n \in 1..MaxUpload : Upload(m, n)
  \/ NewDay
  \/ \E F \in SUBSET MemberIds :
       MidnightJobWith(PurgeDone(PurgeSet(users, asg, penalties)), F)
  \/ \E r \in asg : Done(r.viewer, r)

SpecNotify == Init /\ [][NextNotify]_vars

\* The store fails: the engine group, with a midnight job in which the purge
\* of a member may stop after any of its DELETE statements.
NextFault ==
  \/ RunDailyDistribution
  \/ \E m \in MemberIds, n \in 1..MaxUpload : Upload(m, n)
  \/ NewDay
  \/ \E kf \in PurgeOutcomes(PurgeSet(users, asg, penalties)) :
       MidnightJobWith(kf, {})
  \/ \E r \in asg : Done(r.viewer, r)

SpecFault == Init /\ [][NextFault]_vars

\* Overlapping executions: the engine group with a and b uploading, and the
\* two triggers, each execution advancing one store call at a time; no
\* store call throws.
NextOverlap ==
  \/ \E m \in {"a", "b"}, n \in 1..MaxUpload : Upload(m, n)
  \/ \E i \in RunIds : StartRun(i)
  \/ \E i \in RunIds : RunStep(i, FALSE)

SpecOverlap == Init /\ [][NextOverlap]_vars

\* Failing store calls: two groups with the scheduler on, one trigger, and
\* up to MaxFaults store calls that throw.
InitRunFault ==
  /\ users = MemberIds
  /\ groups = [g \in GroupIds |-> [NewGroup EXCEPT !.sched = TRUE]]
  /\ InitStore

NextRunFault ==
  \/ \E m \in {"a", "d"}, n \in 1..MaxUpload : Upload(m, n)
  \/ StartRun("manual")
  \/ \E f \in BOOLEAN : RunStep("manual", f)

SpecRunFault == InitRunFault /\ [][NextRunFault]_vars

\* The engine group with one trigger and failing store calls; the trigger
\* keeps coming and an execution that can go on does.
NextRetry ==
  \/ \E m \in {"a", "b"}, n \in 1..MaxUpload : Upload(m, n)
  \/ StartRun("manual")
  \/ \E f \in BOOLEAN : RunStep("manual", f)

FairRetry ==
  /\ Init /\ [][NextRetry]_vars
  /\ WF_vars(StartRun("manual"))
  /\ WF_vars(RunStep("manual", FALSE))

\* Suspension and reactivation: the engine group with a and b uploading,
\* the midnight job, and done_ with up to MaxFaults store calls that throw.
NextRevive ==
  \/ RunDailyDistribution
  \/ \E m \in {"a", "b"}, n \in 1..MaxUpload : Upload(m, n)
  \/ NewDay
  \/ MidnightJob
  \/ \E r \in asg, f \in BOOLEAN : DoneWith(r.viewer, r, f)

SpecRevive == Init /\ [][NextRevive]_vars

\* The upload sessions: the engine group, whose members open sessions,
\* send texts and finish with /done while the admin bans members and up
\* to MaxFaults store calls throw.
NextUpload ==
  \/ \E m \in {"a", "b"}, f \in BOOLEAN : StartUpload(m, f)
  \/ \E m \in {"a", "b"} : SendText(m)
  \/ \E m \in {"a", "b"}, o \in {"ok", "users", "settings"}, F \in SUBSET (1..MaxTexts) :
       FinishUpload(m, o, F, MaxCodesDay)
  \/ \E u \in {"a", "b"} : BanUser(u)

SpecUpload == Init /\ [][NextUpload]_vars

\* The penalties switch: the engine group with a and b uploading, the
\* midnight job, and the admin turning the penalties system off and on.
NextSwitch ==
  \/ RunDailyDistribution
  \/ \E m \in {"a", "b"}, n \in 1..MaxUpload : Upload(m, n)
  \/ NewDay
  \/ MidnightJob
  \/ TogglePenalties

SpecSwitch == Init /\ [][NextSwitch]_vars

\* Uploading under penalty: the engine group; a uploads and the engine
\* distributes, days pass and the midnight job runs, and b, a viewer of a's
\* codes, opens upload sessions.
NextBlock ==
  \/ RunDailyDistribution
  \/ \E n \in 1..MaxUpload : Upload("a", n)
  \/ NewDay
  \/ MidnightJob
  \/ \E f \in BOOLEAN : StartUpload("b", f)
  \/ SendText("b")
  \/ \E o \in {"ok", "users", "settings"}, F \in SUBSET (1..MaxTexts) :
       FinishUpload("b", o, F, MaxCodes)

SpecBlock == Init /\ [][NextBlock]_vars

\* The settings lookup: group g1 exists and g2 does not; the admin changes
\* the row of g1, and getGroupSettings is called for either group with a
\* SELECT that succeeds or throws.
InitSettings ==
  /\ users = {"a", "b"}
  /\ groups = [g \in {"g1"} |-> NewGroup]
  /\ InitStore

NextSettings ==
  \/ \E g \in GroupIds, f \in BOOLEAN : CallGetGroupSettings(g, f)
  \/ \E g \in GroupIds : GroupToggle(g)
  \/ \E g \in GroupIds : PaymentRemindGroup(g)
  \/ \E g \in GroupIds : PaymentResumeGroup(g)
  \/ \E g \in GroupIds, v \in 0..MaxLimit : SetGroupLimit(g, v)
  \/ \E g \in GroupIds, t \in SendTimes : SetGroupTime(g, t)

SpecSettings == InitSettings /\ [][NextSettings]_vars

\* Registration: an empty store; people register, and the admin bans
\* members.
InitRegister ==
  /\ users = {}
  /\ groups = [g \in {} |-> NewGroup]
  /\ InitStore

NextRegister ==
  \/ \E m \in MemberIds : StartRegistration(m)
  \/ \E m \in MemberIds : SendBinance(m)
  \/ \E m \in MemberIds : Contact(m)
  \/ \E u \in MemberIds : BanUserListed(u)

SpecRegister == InitRegister /\ [][NextRegister]_vars

\* The store helper: calls of q with every statement kind and every
\* outcome of each attempt.
NextQ ==
  \/ \E k \in Statements : QCall(k)
  \/ \E f \in BOOLEAN : QConnect(f)
  \/ \E o \in Outcomes : QQuery(o)
  \/ QSleep

SpecQ == Init /\ [][NextQ]_vars

\* the penalty job under weak fairness of the clock and of the job: the
\* cron schedule fires every day
FairSpec == Spec /\ WF_vars(NewDay) /\ WF_vars(MidnightJob)

\* ------------------------------------------------------------- claims
\* v has an unused assignment dated yesterday
Missed(v) == \E r \in asg : r.viewer = v /\ r.age = Yesterday /\ ~r.used
HasRowToday(v) == \E r \in asg : r.viewer = v /\ r.age = Today
RowsOfViewer(a, v) == { r \in a : r.viewer = v }
CodesOfOwner(cs, m) == { c \in cs : c.owner = m }
HasRows(c) == \E r \in asg : r.code = c.id

\* C1: for every pair (owner, viewer) at most one assignment row links a
\* code owned by owner to viewer.
NoRepeatPairing ==
  \A o \in MemberIds, v \in MemberIds :
    Cardinality({ r \in asg : /\ r.viewer = v
                              /\ \E c \in codes : c.id = r.code /\ c.owner = o }) <= 1

\* an owner has two codes that both received viewers (the second one in a
\* run that saw the rows of the first)
WitNoRepeatPairing ==
  \E c1 \in codes, c2 \in codes :
    c1.id # c2.id /\ c1.owner = c2.owner /\ HasRows(c1) /\ HasRows(c2)

\* C2: for every code and every date, the number of assignment rows of the
\* code with that date is at most the code's stored views_per_day.
PerDayCap ==
  \A c \in codes : \A n \in 0..(AgeCap - 1) :
    Cardinality({ r \in asg : r.code = c.id /\ r.age = n }) <= c.vpd

\* C3: a run creates assignment rows only for codes whose owner's group has
\* the scheduler active and the payment mode inactive.
EligibleOnly ==
  [][ RunDailyDistribution =>
        \A r \in asg' \ asg :
          \E c \in codes : /\ c.id = r.code
                           /\ groups[GroupOf(c.owner)].sched
                           /\ ~groups[GroupOf(c.owner)].pay ]_vars

\* a group in payment mode with its scheduler on holds an active day-1 code
\* with a candidate viewer and no code of the group was ever assigned, while
\* the runs have assigned a code of the other group
WitEligibleOnly ==
  \E c1 \in codes, c2 \in codes :
    /\ GroupOf(c1.owner) # GroupOf(c2.owner)
    /\ groups[GroupOf(c1.owner)].sched /\ groups[GroupOf(c1.owner)].pay
    /\ c1.status = "active" /\ c1.day = 1 /\ c1.vpd > 0
    /\ \A c \in codes : GroupOf(c.owner) = GroupOf(c1.owner) => ~HasRows(c)
    /\ \E u \in users : u # c1.owner /\ GroupOf(u) = GroupOf(c1.owner)
    /\ lastNextDay[GroupOf(c1.owner)] = 0
    /\ c2.day = lastNextDay[GroupOf(c2.owner)]
    /\ \E r \in asg : r.code = c2.id /\ r.age = Today

\* C4: after a member's done_ action the member has no penalty row (streak
\* 0), whatever the streak was before.
StreakReset ==
  [][ \A r \in asg :
        (r.viewer \in users /\ Done(r.viewer, r)) =>
          PenaltyOf(penalties', r.viewer) = {} ]_vars

\* a member whose codes were suspended at streak 2 has pressed done: its
\* code is still suspended and it has no penalty row
WitStreakReset ==
  \E r \in asg :
    /\ r.used /\ r.viewer \in users
    /\ PenaltyOf(penalties, r.viewer) = {}
    /\ \E c \in CodesOfOwner(codes, r.viewer) : c.status = "suspended"

\* C5 as stated: first miss; the unused rows of yesterday are moved to today
\* in every case.
FirstMissAlwaysMoves ==
  [][ MidnightJob =>
        \A v \in users :
          (PenaltyOf(penalties, v) = {} /\ Missed(v)) =>
            /\ v \in users'
            /\ PenaltyOf(penalties', v) =
                 {[user |-> v, missed |-> 1, age |-> Today, flag |-> FALSE]}
            /\ CodesOfOwner(codes', v) = CodesOfOwner(codes, v)
            /\ \A r \in RowsOfViewer(asg, v) :
                 (r.age = Yesterday /\ ~r.used) =>
                   r \notin asg' /\ [r EXCEPT !.age = Today] \in asg' ]_vars

\* C5 amended: first miss; the streak becomes 1, no code of the viewer
\* changes, and the unused rows of yesterday are moved to today when the
\* viewer has no row dated today; otherwise the viewer's rows are left as
\* they are.
FirstMiss ==
  [][ MidnightJob =>
        \A v \in users :
          (PenaltyOf(penalties, v) = {} /\ Missed(v)) =>
            /\ v \in users'
            /\ PenaltyOf(penalties', v) =
                 {[user |-> v, missed |-> 1, age |-> Today, flag |-> FALSE]}
            /\ CodesOfOwner(codes', v) = CodesOfOwner(codes, v)
            /\ IF HasRowToday(v)
               THEN RowsOfViewer(asg', v) = RowsOfViewer(asg, v)
               ELSE \A r \in RowsOfViewer(asg, v) :
                      (r.age = Yesterday /\ ~r.used) =>
                        r \notin asg' /\ [r EXCEPT !.age = Today] \in asg' ]_vars

\* today's job has recorded the first miss of a viewer that owns an active
\* code and has moved the viewer's rows to today
WitFirstMiss ==
  /\ ~pending
  /\ \E v \in users :
       /\ PenaltyOf(penalties, v) =
            {[user |-> v, missed |-> 1, age |-> Today, flag |-> FALSE]}
       /\ \E r \in asg : r.viewer = v /\ r.age = Today /\ ~r.used
       /\ ~Missed(v)
       /\ \E c \in CodesOfOwner(codes, v) : c.status = "active"

\* C6: second consecutive miss; the streak becomes 2, every active code of
\* the member becomes suspended, the flag is raised, the member stays.
SecondMiss ==
  [][ MidnightJob =>
        \A m \in users :
          (Streak(penalties, m) = 1 /\ Missed(m)) =>
            /\ m \in users'
            /\ Streak(penalties', m) = 2
            /\ \A p \in PenaltyOf(penalties', m) : p.flag
            /\ \A c \in CodesOfOwner(codes, m) :
                 c.status = "active" =>
                   [c EXCEPT !.status = "suspended"] \in codes' ]_vars

\* today's job has suspended the code of a member at streak 2
WitSecondMiss ==
  /\ ~pending
  /\ \E m \in users :
       /\ PenaltyOf(penalties, m) =
            {[user |-> m, missed |-> 2, age |-> Today, flag |-> TRUE]}
       /\ \E c \in CodesOfOwner(codes, m) : c.status = "suspended"

\* C7: third consecutive miss; the job deletes exactly the members that
\* missed with a stored streak of DeleteThreshold - 1 or more, and no
\* assignment row ever has a deleted member as viewer.
ThirdMiss ==
  [][ /\ MidnightJob =>
           \A m \in users :
             m \notin users' <=>
               (Missed(m) /\ Streak(penalties, m) + 1 >= DeleteThreshold)
      /\ \A r \in asg' : /\ r.viewer \in users'
                         /\ r.viewer \notin { p.user : p \in purged' } ]_vars

\* the job has deleted a member that owned a code, and a code created after
\* that member's codes has an assignment dated today to a remaining member
WitThirdMiss ==
  \E p \in purged :
    /\ p.user \notin users
    /\ p.owned # {}
    /\ \E c \in codes : /\ \A i \in p.owned : c.id > i
                        /\ \E r \in asg : r.code = c.id /\ r.age = Today
                                                        /\ r.viewer \in users

\* C8: after the job has deleted a member, no code has it as owner, no
\* assignment has it as viewer or refers to a code it owned, and no penalty
\* row refers to it.
PurgeComplete ==
  \A p \in purged :
    /\ \A c \in codes : c.owner # p.user
    /\ \A r \in asg : r.viewer # p.user /\ r.code \notin p.owned
    /\ \A q \in penalties : q.user # p.user

\* C9: a suspended code is eventually active again, unless it is deleted
\* (with its owner, or by a cycle reset).
ReactivationEventually ==
  \A i \in 1..MaxCodes :
    (\E c \in codes : c.id = i /\ c.status = "suspended")
      ~> ~(\E c \in codes : c.id = i /\ c.status = "suspended")

\* C10: the nextDay computed for a group by successive runs never decreases
\* unless a cycle reset lies between them.
NextDayMonotone ==
  [][ ResetCycle \/
      \A g \in GroupIds : lastNextDay'[g] >= lastNextDay[g] ]_vars
\* C11: a run never assigns an owner's code of day N+1 while the same
\* owner's code of day N has no assignment row.
NoCodeSkipped ==
  [][ RunDailyDistribution =>
        \A r \in asg' \ asg : \A c \in codes, c0 \in codes :
          (c.id = r.code /\ c0.owner = c.owner /\ c0.day + 1 = c.day) =>
            \E r0 \in asg : r0.code = c0.id ]_vars
\* C12: in a run, each active code of an eligible group whose day is the
\* group's nextDay receives exactly min(views_per_day, |candidates|) new rows,
\* all dated today and unused; the candidates are the members of the owner's
\* group other than the owner that no row links to a code of the owner.
AudienceSize ==
  [][ RunDailyDistribution =>
        \A c \in codes :
          ( /\ GroupOf(c.owner) \in DOMAIN groups
            /\ groups[GroupOf(c.owner)].sched /\ ~groups[GroupOf(c.owner)].pay
            /\ c.status = "active" /\ c.owner \in users
            /\ c.day = NextDay(users, codes, asg, GroupOf(c.owner)) ) =>
          LET new  == { r \in asg' \ asg : r.code = c.id }
              seen == { r.viewer : r \in
                        { x \in asg' : \E cc \in codes :
                            /\ cc.id = x.code /\ cc.owner = c.owner
                            /\ (x \in asg \/ cc.id < c.id) } }
              cand == { u \in users : /\ GroupOf(u) = GroupOf(c.owner)
                                      /\ u # c.owner /\ u \notin seen }
          IN  /\ Cardinality(new) = Min(c.vpd, Cardinality(cand))
              /\ \A r \in new : r.age = Today /\ ~r.used ]_vars
\* C13: a run creates no row for a code that already has a row dated today.
SameDayRetrigger ==
  [][ RunDailyDistribution =>
        \A r \in asg' \ asg :
          ~\E r0 \in asg : r0.code = r.code /\ r0.age = Today ]_vars

\* the engine has been triggered again after the day-1 code of the group
\* received its viewer: nextDay was computed as 2 while nobody has missed or
\* pressed done, and the day-1 code has its row dated today
WitSameDayRetrigger ==
  /\ penalties = {} /\ purged = {}
  /\ \A r \in asg : ~r.used
  /\ \E c \in codes : /\ c.day = 1
                      /\ lastNextDay[GroupOf(c.owner)] = 2
                      /\ \E r \in asg : r.code = c.id /\ r.age = Today
\* C14: for every group, the codes that have assignments dated today all
\* have the same day number (on a date without carry-forward, where every
\* row dated today was created by a run of today).
OneDayPerDate ==
  \A g \in DOMAIN groups :
    Cardinality({ c.day : c \in { x \in codes :
                    /\ GroupOf(x.owner) = g
                    /\ \E r \in asg : r.code = x.id /\ r.age = Today } }) <= 1
\* C15: a scheduler tick at time of day t creates assignment rows only for
\* codes of groups whose send_time is t.
SendTimeOnly ==
  [][ \A t \in SendTimes :
        SchedulerTick(t) =>
          \A r \in asg' \ asg :
            \E c \in codes : /\ c.id = r.code
                             /\ groups[GroupOf(c.owner)].time = t ]_vars
\* C16: a member's streak grows only in the midnight job, which runs once
\* between two changes of the calendar date, and it grows by exactly 1.
PenaltyOncePerDay ==
  [][ \A u \in MemberIds :
        Streak(penalties', u) > Streak(penalties, u) =>
          /\ MidnightJob
          /\ pending /\ ~pending'
          /\ Streak(penalties', u) = Streak(penalties, u) + 1 ]_vars

\* today's job has raised a streak to 2 after the streak had been raised to
\* 1 on an earlier date, and the member's unused row is dated today
WitPenaltyOncePerDay ==
  /\ ~pending
  /\ \E p \in penalties :
       /\ p.age = Today /\ p.missed = SuspendThreshold
       /\ \E r \in asg : r.viewer = p.user /\ r.age = Today /\ ~r.used
\* C17: a cycle reset leaves no code row and no assignment row and changes
\* neither the members nor the groups and their settings (a member's group
\* is the fixed GroupOf).
ResetFrame ==
  [][ ResetCycle =>
        /\ codes' = {} /\ asg' = {}
        /\ users' = users
        /\ groups' = groups ]_vars

\* codes were uploaded and a reset has wiped them: the tables are empty, the
\* id sequence has advanced, and all three members are still registered
WitResetFrame ==
  /\ codes = {} /\ asg = {}
  /\ nextCodeId > 1
  /\ users = {"a", "b", "c"}
  /\ \A g \in DOMAIN groups : groups[g].sched
\* C18: no assignment row has as viewer the owner of the assigned code.
ViewerNotOwner ==
  \A r \in asg : \A c \in codes : c.id = r.code => r.viewer # c.owner

\* two members each own a code that is assigned to the other one
WitViewerNotOwner ==
  \E r1 \in asg, r2 \in asg : \E c1 \in codes, c2 \in codes :
    /\ c1.id = r1.code /\ c2.id = r2.code
    /\ r1.viewer = c2.owner /\ r2.viewer = c1.owner
\* C19: the purge is all or nothing: a midnight job deletes no code and no
\* assignment of a member that it leaves registered.
PurgeAtomic ==
  [][ (pending /\ ~pending') =>
        \A m \in users :
          m \in users' =>
            /\ { c.id : c \in CodesOfOwner(codes', m) } =
                 { c.id : c \in CodesOfOwner(codes, m) }
            /\ { r.code : r \in RowsOfViewer(asg', m) } =
                 { r.code : r \in RowsOfViewer(asg, m) } ]_vars

\* C20: when the message to a member cannot be sent in a midnight job, the
\* transition of every member that missed is still committed: the member is
\* deleted at the threshold, otherwise it stays with its streak raised by
\* one and, from streak SuspendThreshold on, without an active code.
NotifyBestEffort ==
  [][ ( /\ MidnightJobWith(PurgeDone(PurgeSet(users, asg, penalties)), unsent')
        /\ unsent' # {} ) =>
        \A m \in users :
          Missed(m) =>
            IF Streak(penalties, m) + 1 >= DeleteThreshold
            THEN m \notin users'
            ELSE /\ m \in users'
                 /\ Streak(penalties', m) = Streak(penalties, m) + 1
                 /\ Streak(penalties', m) >= SuspendThreshold =>
                      \A c \in CodesOfOwner(codes', m) : c.status # "active" ]_vars

\* today's job could not send the message to a member it deleted, and it
\* raised the streak of another member whose message was sent
WitNotifyBestEffort ==
  /\ ~pending
  /\ \E p \in purged :
       /\ p.user \in unsent /\ p.user \notin users
       /\ \E q \in penalties :
            q.age = Today /\ q.user \notin unsent /\ q.user \in users

\* C21: whatever the interleaving of two executions of runDailyDistribution,
\* two different assignment rows never link the same owner to the same
\* viewer.
SerializedPairs ==
  \A r1 \in asg, r2 \in asg :
    (r1 # r2 /\ r1.viewer = r2.viewer) =>
      \A c1 \in codes, c2 \in codes :
        (c1.id = r1.code /\ c2.id = r2.code) => c1.owner # c2.owner

\* C23: at most one execution of runDailyDistribution is in progress.
NoOverlappingRuns ==
  Cardinality({ i \in RunIds : runs[i].pc # "idle" }) <= 1

\* 1 + the highest day_number among the codes of the members of g that have
\* an assignment row, 1 when there is none
DueDay(g) ==
  LET ds == { c.day : c \in { x \in codes : /\ x.owner \in users
                                            /\ GroupOf(x.owner) = g
                                            /\ HasRows(x) } }
  IN  IF ds = {} THEN 1 ELSE 1 + Max(ds)

\* C22: a run creates rows only for codes of eligible groups that are
\* active and scheduled on the group's due day, deletes and changes no row,
\* and creates no row for a group that has no such code.
DaySelection ==
  [][ RunDailyDistribution =>
        /\ asg \subseteq asg'
        /\ \A r \in asg' \ asg :
             \E c \in codes :
               /\ c.id = r.code
               /\ c.status = "active"
               /\ c.owner \in users
               /\ Eligible(groups, GroupOf(c.owner))
               /\ c.day = DueDay(GroupOf(c.owner))
        /\ \A g \in GroupIds :
             (~ \E c \in codes : /\ c.status = "active" /\ c.owner \in users
                                 /\ GroupOf(c.owner) = g /\ c.day = DueDay(g)) =>
               \A r \in asg' \ asg :
                 \A c \in codes : c.id = r.code => GroupOf(c.owner) # g ]_vars

\* the due day of a group is the day of a suspended code of a registered
\* member, the last run computed that day, and the code has no row
WitDaySelection ==
  \E c \in codes :
    /\ c.status = "suspended" /\ c.owner \in users /\ ~HasRows(c)
    /\ lastNextDay[GroupOf(c.owner)] = c.day
    /\ DueDay(GroupOf(c.owner)) = c.day

\* C24: a code whose distribution was skipped because a store call threw
\* receives an assignment in a later run.
RetryEventually ==
  \A id \in 1..MaxCodes :
    (id \in skipped) ~> (\E r \in asg : r.code = id)

\* C25: when an execution of runDailyDistribution ends in the pass of one
\* code, no other eligible group of the run that has active codes of its
\* due day is left without its turn.
FailureIsolated ==
  [][ \A i \in RunIds :
        (runs[i].pc \in {"seen", "insert"} /\ runs'[i].pc = "idle") =>
          \A g \in runs[i].left :
            CodesForDay(users, codes, g, DueDay(g)) = {} ]_vars

\* C26: q tries a query at most Retries times; it returns only after an
\* attempt that succeeded, and after Retries failed attempts it has thrown.
BoundedRetry ==
  LET n == Len(qcall.tried)
  IN  /\ n <= Retries
      /\ qcall.pc = "returned" => (n > 0 /\ qcall.tried[n] = "ok")
      /\ (n = Retries /\ \A j \in 1..n : qcall.tried[j] # "ok") =>
           qcall.pc = "thrown"

\* the third attempt of a call has failed and q has thrown
WitBoundedRetry ==
  /\ qcall.pc = "thrown"
  /\ Len(qcall.tried) = Retries
  /\ \A j \in 1..Retries : qcall.tried[j] # "ok"

\* C27: a write rejected for a domain reason is not attempted again: such a
\* rejection is the last attempt of its call.
DomainNotRetried ==
  \A j \in 1..Len(qcall.tried) :
    qcall.tried[j] = "domain" => j = Len(qcall.tried)

\* C28: in the midnight job, among the rows of the viewers the job does not
\* delete, the unused rows dated yesterday of a viewer without a row dated
\* today are re-dated to today, code, viewer and used unchanged; every
\* other row stays as it is; no row is created or deleted.
CarryForwardMove ==
  [][ MidnightJob =>
        LET a1 == { r \in asg : r.viewer \notin PurgeSet(users, asg, penalties) }
        IN  /\ Cardinality(asg') = Cardinality(a1)
            /\ \A r \in a1 :
                 IF r.age = Yesterday /\ ~r.used /\ ~HasRowToday(r.viewer)
                 THEN [r EXCEPT !.age = Today] \in asg' /\ r \notin asg'
                 ELSE r \in asg' ]_vars

\* today's job has penalised a viewer and left its unused row of yesterday
\* where it was, because the viewer had a row dated today
WitCarryForwardMove ==
  /\ ~pending
  /\ \E r \in asg :
       /\ r.age = Yesterday /\ ~r.used
       /\ HasRowToday(r.viewer)
       /\ \E p \in penalties : p.user = r.viewer /\ p.age = Today

\* C29: a code goes from suspended to active only in the midnight job and
\* only when its owner's penalty row has the flag codes_deleted and a
\* penalty date SuspendDays or more before today; the status of every other
\* suspended code stays.
ReactivationWindow ==
  [][ \A c \in codes :
        (c.status = "suspended" /\ [c EXCEPT !.status = "active"] \in codes') =>
          /\ pending /\ ~pending'
          /\ \E p \in penalties :
               p.user = c.owner /\ p.flag /\ p.age >= SuspendDays ]_vars

\* today's job has reactivated a code: it is active and its owner, still
\* registered, has no penalty row
WitReactivationWindow ==
  /\ ~pending
  /\ \E c \in codes :
       /\ c.id \in revived /\ c.status = "active"
       /\ c.owner \in users
       /\ PenaltyOf(penalties, c.owner) = {}

\* C30: within one run, two codes of the same owner receive disjoint sets
\* of viewers.
OrderedInsideRun ==
  [][ RunDailyDistribution =>
        \A c1 \in codes, c2 \in codes :
          (c1.id # c2.id /\ c1.owner = c2.owner) =>
            { r.viewer : r \in { x \in asg' \ asg : x.code = c1.id } }
              \cap { r.viewer : r \in { x \in asg' \ asg : x.code = c2.id } } = {} ]_vars

\* two codes of one owner scheduled on the same day (two uploads) have both
\* received a viewer
WitOrderedInsideRun ==
  \E c1 \in codes, c2 \in codes :
    /\ c1.id # c2.id /\ c1.owner = c2.owner /\ c1.day = c2.day
    /\ HasRows(c1) /\ HasRows(c2)

\* a session of member m is closed by /done and rows are stored
StoresUpload(m) ==
  /\ userState[m].stage = "uploading_codes"
  /\ userState'[m].stage = "none"
  /\ codes' # codes

\* C31: a completed upload of a member stores active codes of that member
\* whose day numbers are exactly 1..distribution_days of the group, the
\* i-th stored code carrying day number i.
UploadBatch ==
  [][ \A m \in MemberIds :
        StoresUpload(m) =>
          /\ { c.day : c \in codes' \ codes } = 1..groups[GroupOf(m)].days
          /\ \A c \in codes' \ codes :
               /\ c.owner = m /\ c.status = "active"
               /\ c.day = c.id - nextCodeId + 1 ]_vars

\* C32: no two registered members of the same group have the same
\* auto_name.
UniqueNames ==
  \A m1 \in users, m2 \in users :
    (m1 # m2 /\ GroupOf(m1) = GroupOf(m2)) => autoName[m1] # autoName[m2]

\* C33: views_per_day of a stored code never changes, in particular not when
\* the limit of a group is changed, and a code that is stored takes the limit
\* its owner's group has at that moment.
ViewsPerDayFixed ==
  [][ /\ \A c \in codes, d \in codes' : d.id = c.id => d.vpd = c.vpd
      /\ (\E g \in DOMAIN groups : groups'[g].limit # groups[g].limit) => codes' = codes
      /\ \A d \in codes' :
           (\A c \in codes : c.id # d.id) => d.vpd = groups[GroupOf(d.owner)].limit ]_vars

\* the limit was changed between two uploads: the earlier code keeps the old
\* value, the later code has the group's present value
WitViewsPerDayFixed ==
  \E c \in codes, d \in codes :
    /\ c.id < d.id /\ GroupOf(c.owner) = GroupOf(d.owner)
    /\ c.vpd # groups[GroupOf(c.owner)].limit
    /\ d.vpd = groups[GroupOf(d.owner)].limit

\* C34: a call of getGroupSettings for a group without a row, or whose
\* SELECT throws, raises no error and returns daily_codes_limit 50,
\* distribution_days 20, send_time 09:00:00, scheduler inactive and payment
\* mode inactive; no call raises an error.
MissingConfiguration ==
  got.called =>
    /\ ~got.raised
    /\ (got.failed \/ got.group \notin DOMAIN groups) =>
         /\ got.value.limit = DefaultLimit
         /\ got.value.days = DefaultDays
         /\ got.value.time = "09:00:00"
         /\ ~got.value.sched
         /\ ~got.value.pay

\* a call for the existing group threw while the row of the group has other
\* values than the defaults, and the defaults were returned
WitMissingConfiguration ==
  /\ got.called /\ got.failed /\ got.group \in DOMAIN groups
  /\ groups[got.group].sched
  /\ groups[got.group].limit # got.value.limit
  /\ ~got.value.sched

\* C35: while penalties_active is false, the midnight job raises no member's
\* missed_days, suspends no code and deletes no member.
PenaltiesSwitch ==
  [][ (MidnightJob /\ ~penaltiesActive) =>
        /\ \A u \in users : Streak(penalties', u) <= Streak(penalties, u)
        /\ \A c \in codes : c.status = "active" =>
             [c EXCEPT !.status = "suspended"] \notin codes'
        /\ users' = users ]_vars

\* C36: no upload session is opened for a member whose penalty row has
\* missed_days >= 2, and no code is stored for such a member.
UploadBlocked ==
  [][ /\ \A m \in MemberIds :
           (userState[m].stage # "uploading_codes" /\ userState'[m].stage = "uploading_codes")
             => Streak(penalties, m) < UploadBlock
      /\ \A c \in codes' \ codes : Streak(penalties, c.owner) < UploadBlock ]_vars

\* C37: outside the window of the midnight job, every suspended code has
\* an owner whose penalty row exists with codes_deleted set.
SuspensionBookkeeping ==
  ~pending =>
    \A c \in codes :
      c.status = "suspended" =>
        \E p \in PenaltyOf(penalties, c.owner) : p.flag

\* C38: the done button changes the penalty rows only when the row it
\* names is an unused row of the pressing member.
MarkUsedPrecondition ==
  [][ \A r \in asg :
        (Done(r.viewer, r) /\ penalties' # penalties) => ~r.used ]_vars

\* the members, the codes and the assignment rows of group g
UsersOfGroup(g) == { u \in users : GroupOf(u) = g }
CodesOfGroup(g) == { c \in codes : GroupOf(c.owner) = g }
RowsOfGroup(a, g) == { r \in a : \E c \in CodesOfGroup(g) : c.id = r.code }

\* C39: the viewer of every assignment row is of the group of the owner of
\* the row's code; and what a run does to the rows of an eligible group is
\* a distribution computed from the members, codes and rows of that group
\* alone, the rows of the other groups being left as they are.
GroupIsolation ==
  [][ /\ \A r \in asg', c \in codes' :
           c.id = r.code => GroupOf(r.viewer) = GroupOf(c.owner)
      /\ RunDailyDistribution =>
           \A g \in GroupIds :
             IF g \in EligibleGroups
               THEN RowsOfGroup(asg', g) \in
                      DistGroup(UsersOfGroup(g), CodesOfGroup(g), groups,
                                RowsOfGroup(asg, g), g)
               ELSE RowsOfGroup(asg', g) = RowsOfGroup(asg, g) ]_vars

\* codes of both groups have a viewer with a row dated today, and each
\* group has a member without any row
WitGroupIsolation ==
  /\ \E r \in asg : r.age = Today /\ GroupOf(r.viewer) = "g1"
  /\ \E r \in asg : r.age = Today /\ GroupOf(r.viewer) = "g2"
  /\ \A g \in GroupIds : \E u \in UsersOfGroup(g) : RowsOfViewer(asg, u) = {}
====
